---- MODULE Spec2Model ----
(***************************************************************************)
(* Model of the notebook basic_training_container (checkpoint copy): one   *)
(* top-to-bottom execution of its code cells ("Run All").  The kernel      *)
(* executes one statement at a time; a Python exception stops the run, a   *)
(* non-zero exit status of a "!" shell escape does not.                    *)
(***************************************************************************)
EXTENDS Integers, Sequences, FiniteSets, TLC

VARIABLES
    pc,                   \* the statement the kernel executes next
    err,                  \* the call site whose exception ended the run
    runs,                 \* how many times each statement was executed
    shellFailed,          \* "!" display cells that returned a non-zero status
    role, account_id, region, sagemaker_session, bucket,
    buildStatus,          \* state of the build_and_push.sh process
    buildArgs,            \* positional arguments the script was started with
    ecr,                  \* image references present in the registry
    container_image_uri,
    est,                  \* the Estimator object currently bound to est
    train_config, val_config,
    file_system_access_mode, train, validation,
    security_group_ids, subnets, data_channels,
    jobs                  \* training jobs received by the remote service

vars == <<pc, err, runs, shellFailed, role, account_id, region,
          sagemaker_session, bucket, buildStatus, buildArgs, ecr,
          container_image_uri, est, train_config, val_config,
          file_system_access_mode, train, validation, security_group_ids,
          subnets, data_channels, jobs>>

envVars   == <<role, account_id, region, sagemaker_session, bucket>>
buildVars == <<buildStatus, buildArgs, ecr>>
s3Vars    == <<train_config, val_config>>
efsVars   == <<file_system_access_mode, train, validation>>
netVars   == <<security_group_ids, subnets, data_channels>>

-----------------------------------------------------------------------------
(* Bounds of the ambient environment the run may find itself in.           *)
NumAccounts == 2
NumRegions  == 2

AccountIds  == <<"123456789012", "210987654321", "111122223333", "444455556666">>
RegionNames == <<"us-east-1", "eu-west-1", "us-west-2", "ap-south-1">>
Buckets     == {"sagemaker-" \o RegionNames[i] \o "-" \o AccountIds[j] :
                  i \in 1..NumRegions, j \in 1..NumAccounts}

None == "None"

(* Unset values of the names that hold token sequences and tuples.         *)
NoRole == <<>>
NoArgs == <<>>
NoIds  == <<>>

(* Program constants of the first code cell and of the job cells.          *)
ecr_namespace         == "sagemaker-training-containers/"
prefix                == "basic-training-container"
ecr_repository_name   == ecr_namespace \o prefix
train_instance_count  == 1
train_instance_type   == "ml.m5.xlarge"
file_system_id        == "fs-df51afdb"
file_system_type      == "EFS"

-----------------------------------------------------------------------------
(* Strings that the code takes apart are kept as sequences of tokens, the  *)
(* separator ":" being a token of its own.                                 *)
RECURSIVE Concat(_)
Concat(toks) == IF toks = <<>> THEN "" ELSE Head(toks) \o Concat(Tail(toks))

RECURSIVE SplitFrom(_, _, _, _)
SplitFrom(toks, sep, cur, acc) ==
    IF toks = <<>> THEN Append(acc, cur)
    ELSE IF Head(toks) = sep
         THEN SplitFrom(Tail(toks), sep, "", Append(acc, cur))
         ELSE SplitFrom(Tail(toks), sep, cur \o Head(toks), acc)

(* str.split(sep): the list of fields between the separators.              *)
Split(toks, sep) == SplitFrom(toks, sep, "", <<>>)

(* The ARN get_execution_role() returns for an account.                    *)
RoleArn(acct) == <<"arn", ":", "aws", ":", "iam", ":", ":", acct, ":",
                   "role/service-role/AmazonSageMaker-ExecutionRole">>

Roles == {RoleArn(AccountIds[i]) : i \in 1..NumAccounts}

(* role.split(':')[4]; Python indexes from 0.                              *)
AccountOfWrongField(r) == Split(r, ":")[4]
AccountOf(r) == Split(r, ":")[4 + 1]

(* '{0}.dkr.ecr.{1}.amazonaws.com/{2}:latest'.format(a, r, n)              *)
FormatImageUriNoTag(a, r, n) == a \o ".dkr.ecr." \o r \o ".amazonaws.com/" \o n
FormatImageUri(a, r, n) ==
    a \o ".dkr.ecr." \o r \o ".amazonaws.com/" \o n \o ":latest"

(* The image reference the build script pushes for its three arguments.    *)
PushedImage(args) ==
    args[1] \o ".dkr.ecr." \o args[2] \o ".amazonaws.com/" \o args[3] \o ":latest"

-----------------------------------------------------------------------------
(* The statements of the code cells in notebook order.                     *)
Cells == <<"get_execution_role", "account_id", "region_name", "Session",
           "default_bucket", "print_env",
           "pygmentize_Dockerfile", "pygmentize_build_and_push",
           "build_and_push", "container_image_uri", "pygmentize_main",
           "upload_dummy",
           "Estimator1", "set_hyperparameters1", "s3_input", "fit1",
           "yum_install", "mkdir_efs", "echo_HOME", "mount_efs", "s3_cp",
           "FileSystemInput", "network", "Estimator2",
           "set_hyperparameters2", "data_channels", "fit2">>

CellSet == {Cells[i] : i \in 1..Len(Cells)}

IndexOf(c) == CHOOSE i \in 1..Len(Cells) : Cells[i] = c

(* The statement that follows c when c raises nothing.                     *)
SuccSkipping(c) ==
    LET i == IndexOf(c)
    IN  IF c = "build_and_push" THEN "pygmentize_main"
        ELSE IF i = Len(Cells) THEN "done" ELSE Cells[i + 1]
Succ(c) ==
    LET i == IndexOf(c) IN IF i = Len(Cells) THEN "done" ELSE Cells[i + 1]

(* Cells whose whole source is commented out.                              *)
CommentCells == {"upload_dummy", "mkdir_efs", "mount_efs", "s3_cp"}

(* "!" cells that only display something or install a package.             *)
ShellCells == {"pygmentize_Dockerfile", "pygmentize_build_and_push",
               "pygmentize_main", "yum_install", "echo_HOME"}

(* The kernel is about to execute statement c.                             *)
At(c) == pc = c

(* The kernel is blocked in the external call made by statement c.         *)
WaitLabel(c) == c \o "_wait"

Ran(c) == runs' = [runs EXCEPT ![c] = @ + 1]

(* The statement completes and the kernel moves on.                        *)
Advance(c) == pc' = Succ(c) /\ err' = err /\ Ran(c)

(* The statement raises: the kernel abandons the rest of the run.          *)
Raise(c) == pc' = "error" /\ err' = c /\ Ran(c)

-----------------------------------------------------------------------------
Init ==
    /\ pc = Cells[1]
    /\ err = None
    /\ runs = [c \in CellSet |-> 0]
    /\ shellFailed = {}
    /\ role = NoRole /\ account_id = None /\ region = None
    /\ sagemaker_session = None /\ bucket = None
    /\ buildStatus = "NotStarted" /\ buildArgs = NoArgs /\ ecr = {}
    /\ container_image_uri = None
    /\ est = None
    /\ train_config = None /\ val_config = None
    /\ file_system_access_mode = None /\ train = None /\ validation = None
    /\ security_group_ids = NoIds /\ subnets = NoIds /\ data_channels = None
    /\ jobs = <<>>

-----------------------------------------------------------------------------
(* Environment resolver cell.                                              *)

GetExecutionRole ==
    /\ At("get_execution_role")
    /\ \/ \E r \in Roles : role' = r /\ Advance("get_execution_role")
       \/ role' = role /\ Raise("get_execution_role")
    /\ UNCHANGED <<shellFailed, account_id, region, sagemaker_session, bucket,
                   buildVars, container_image_uri, est, s3Vars, efsVars,
                   netVars, jobs>>

AccountId ==
    /\ At("account_id")
    /\ account_id' = AccountOf(role)
    /\ Advance("account_id")
    /\ UNCHANGED <<shellFailed, role, region, sagemaker_session, bucket,
                   buildVars, container_image_uri, est, s3Vars, efsVars,
                   netVars, jobs>>

RegionName ==
    /\ At("region_name")
    /\ \/ \E i \in 1..NumRegions :
            region' = RegionNames[i] /\ Advance("region_name")
       \/ region' = region /\ Raise("region_name")
    /\ UNCHANGED <<shellFailed, role, account_id, sagemaker_session, bucket,
                   buildVars, container_image_uri, est, s3Vars, efsVars,
                   netVars, jobs>>

SagemakerSession ==
    /\ At("Session")
    /\ \/ sagemaker_session' = "Session" /\ Advance("Session")
       \/ sagemaker_session' = sagemaker_session /\ Raise("Session")
    /\ UNCHANGED <<shellFailed, role, account_id, region, bucket,
                   buildVars, container_image_uri, est, s3Vars, efsVars,
                   netVars, jobs>>

DefaultBucketNoRaise ==
    /\ At("default_bucket")
    /\ \/ \E b \in Buckets :
            /\ b = "sagemaker-" \o region \o "-" \o account_id
            /\ bucket' = b
            /\ Advance("default_bucket")
       \/ bucket' = bucket /\ Advance("default_bucket")
    /\ UNCHANGED <<shellFailed, role, account_id, region, sagemaker_session,
                   buildVars, container_image_uri, est, s3Vars, efsVars,
                   netVars, jobs>>
DefaultBucket ==
    /\ At("default_bucket")
    /\ \/ \E b \in Buckets :
            /\ b = "sagemaker-" \o region \o "-" \o account_id
            /\ bucket' = b
            /\ Advance("default_bucket")
       \/ bucket' = bucket /\ Raise("default_bucket")
    /\ UNCHANGED <<shellFailed, role, account_id, region, sagemaker_session,
                   buildVars, container_image_uri, est, s3Vars, efsVars,
                   netVars, jobs>>

PrintEnv ==
    /\ At("print_env")
    /\ Advance("print_env")
    /\ UNCHANGED <<shellFailed, envVars, buildVars, container_image_uri, est,
                   s3Vars, efsVars, netVars, jobs>>

-----------------------------------------------------------------------------
(* Display cells and cells that are commented out.                         *)

ShellCell ==
    /\ \E c \in ShellCells :
         /\ At(c)
         /\ \/ shellFailed' = shellFailed
            \/ shellFailed' = shellFailed \cup {c}
         /\ Advance(c)
    /\ UNCHANGED <<envVars, buildVars, container_image_uri, est, s3Vars,
                   efsVars, netVars, jobs>>

CommentCell ==
    /\ \E c \in CommentCells : At(c) /\ Advance(c)
    /\ UNCHANGED <<shellFailed, envVars, buildVars, container_image_uri, est,
                   s3Vars, efsVars, netVars, jobs>>

-----------------------------------------------------------------------------
(* Container publisher: "! ../scripts/build_and_push.sh $account_id        *)
(* $region $ecr_repository_name" under %%capture.  The kernel starts the   *)
(* script and blocks until the process exits; its exit status is dropped.  *)

BuildStartDetached ==
    /\ At("build_and_push")
    /\ buildStatus' = "Running"
    /\ buildArgs' = <<account_id, region, ecr_repository_name>>
    /\ Advance("build_and_push")
    /\ UNCHANGED <<shellFailed, envVars, ecr, container_image_uri, est,
                   s3Vars, efsVars, netVars, jobs>>
BuildStart ==
    /\ At("build_and_push")
    /\ buildStatus' = "Running"
    /\ buildArgs' = <<account_id, region, ecr_repository_name>>
    /\ pc' = WaitLabel("build_and_push") /\ err' = err
    /\ Ran("build_and_push")
    /\ UNCHANGED <<shellFailed, envVars, ecr, container_image_uri, est,
                   s3Vars, efsVars, netVars, jobs>>

(* The script process ends: either it pushed the image or it failed.       *)
ScriptExit ==
    /\ buildStatus = "Running"
    /\ \/ buildStatus' = "Succeeded" /\ ecr' = ecr \cup {PushedImage(buildArgs)}
       \/ buildStatus' = "Failed" /\ ecr' = ecr
    /\ UNCHANGED <<pc, err, runs, shellFailed, envVars, buildArgs,
                   container_image_uri, est, s3Vars, efsVars, netVars, jobs>>

BuildReturnChecked ==
    /\ At(WaitLabel("build_and_push"))
    /\ buildStatus \in {"Succeeded", "Failed"}
    /\ IF buildStatus = "Failed"
       THEN pc' = "error" /\ err' = "build_and_push"
       ELSE pc' = Succ("build_and_push") /\ err' = err
    /\ UNCHANGED <<runs, shellFailed, envVars, buildVars, container_image_uri,
                   est, s3Vars, efsVars, netVars, jobs>>
BuildReturn ==
    /\ At(WaitLabel("build_and_push"))
    /\ buildStatus \in {"Succeeded", "Failed"}
    /\ pc' = Succ("build_and_push") /\ err' = err
    /\ UNCHANGED <<runs, shellFailed, envVars, buildVars, container_image_uri,
                   est, s3Vars, efsVars, netVars, jobs>>

ComposeImageUri ==
    /\ At("container_image_uri")
    /\ container_image_uri' = FormatImageUri(account_id, region, ecr_repository_name)
    /\ Advance("container_image_uri")
    /\ UNCHANGED <<shellFailed, envVars, buildVars, est, s3Vars, efsVars,
                   netVars, jobs>>

-----------------------------------------------------------------------------
(* Job submitter: the objects the two job cells build.                     *)

(* sagemaker.estimator.Estimator(image, role, train_instance_count=...,    *)
(* train_instance_type=..., base_job_name=..., subnets=...,                *)
(* security_group_ids=...); the last two default to None (NoIds).          *)
EstimatorDroppingNetwork(image, r, count, type, base, sn, sg) ==
    [image_uri |-> image, role |-> r, train_instance_count |-> count,
     train_instance_type |-> type, base_job_name |-> base,
     subnets |-> NoIds, security_group_ids |-> NoIds,
     hyperparameters |-> None]
Estimator(image, r, count, type, base, sn, sg) ==
    [image_uri |-> image, role |-> r, train_instance_count |-> count,
     train_instance_type |-> type, base_job_name |-> base,
     subnets |-> sn, security_group_ids |-> sg,
     hyperparameters |-> None]

(* The keyword arguments of est.set_hyperparameters(hp1='value1', hp2=300, *)
(* hp3=0.001); the float 0.001 is kept as mantissa and decimal exponent.   *)
Hyperparameters == [hp1 |-> "value1", hp2 |-> 300, hp3 |-> <<1, -3>>]

(* sagemaker.session.s3_input(uri, content_type=...)                       *)
s3_input(uri, content_type) ==
    [variant |-> "S3", uri |-> uri, content_type |-> content_type]

(* FileSystemInput(file_system_id=..., file_system_type=...,               *)
(* directory_path=..., file_system_access_mode=...)                        *)
FileSystemInput(id, type, path, mode) ==
    [variant |-> "FileSystem", file_system_id |-> id, file_system_type |-> type,
     directory_path |-> path, file_system_access_mode |-> mode]

(* The request est.fit(inputs) hands to the training service.              *)
TrainingJob(e, inputs) ==
    [image_uri |-> e.image_uri, role |-> e.role,
     train_instance_count |-> e.train_instance_count,
     train_instance_type |-> e.train_instance_type,
     base_job_name |-> e.base_job_name,
     subnets |-> e.subnets, security_group_ids |-> e.security_group_ids,
     hyperparameters |-> e.hyperparameters,
     inputs |-> inputs, status |-> "InProgress"]

Estimator1 ==
    /\ At("Estimator1")
    /\ est' = Estimator(container_image_uri, Concat(role), train_instance_count,
                        train_instance_type, prefix, NoIds, NoIds)
    /\ Advance("Estimator1")
    /\ UNCHANGED <<shellFailed, envVars, buildVars, container_image_uri,
                   s3Vars, efsVars, netVars, jobs>>

SetHyperparameters ==
    /\ \E c \in {"set_hyperparameters1", "set_hyperparameters2"} :
         At(c) /\ Advance(c)
    /\ est' = [est EXCEPT !.hyperparameters = Hyperparameters]
    /\ UNCHANGED <<shellFailed, envVars, buildVars, container_image_uri,
                   s3Vars, efsVars, netVars, jobs>>

S3Input ==
    /\ At("s3_input")
    /\ train_config' = s3_input("s3://landsat-pds/L8/001/002/LC80010022016230LGN00/",
                                "image/jpeg")
    /\ val_config' = s3_input("s3://landsat-pds/L8/001/002/LC80010022016246LGN00/",
                              "image/jpeg")
    /\ Advance("s3_input")
    /\ UNCHANGED <<shellFailed, envVars, buildVars, container_image_uri, est,
                   efsVars, netVars, jobs>>

(* est.fit(inputs): the request is sent, and with the default wait=True    *)
(* the call blocks until the job reaches a terminal status.                *)
FitNoWait(c, inputs) ==
    /\ At(c)
    /\ \/ /\ jobs' = Append(jobs, TrainingJob(est, inputs))
          /\ Advance(c)
       \/ jobs' = jobs /\ Raise(c)
Fit(c, inputs) ==
    /\ At(c)
    /\ \/ /\ jobs' = Append(jobs, TrainingJob(est, inputs))
          /\ pc' = WaitLabel(c) /\ err' = err /\ Ran(c)
       \/ jobs' = jobs /\ Raise(c)

(* The training service finishes a job.                                    *)
RemoteFinish ==
    /\ \E i \in 1..Len(jobs) :
         /\ jobs[i].status = "InProgress"
         /\ \E s \in {"Completed", "Failed"} :
              jobs' = [jobs EXCEPT ![i].status = s]
    /\ UNCHANGED <<pc, err, runs, shellFailed, envVars, buildVars,
                   container_image_uri, est, s3Vars, efsVars, netVars>>

(* fit() returns once its job, the latest one, is terminal; a failed job   *)
(* makes it raise.                                                         *)
WaitSwallowingFailure(c) ==
    /\ At(WaitLabel(c))
    /\ jobs[Len(jobs)].status \in {"Completed", "Failed"}
    /\ pc' = Succ(c)
    /\ err' = IF jobs[Len(jobs)].status = "Failed" THEN c ELSE err
Wait(c) ==
    /\ At(WaitLabel(c))
    /\ jobs[Len(jobs)].status \in {"Completed", "Failed"}
    /\ IF jobs[Len(jobs)].status = "Failed"
       THEN pc' = "error" /\ err' = c
       ELSE pc' = Succ(c) /\ err' = err

Fit1 ==
    /\ Fit("fit1", [train |-> train_config, validation |-> val_config])
    /\ UNCHANGED <<shellFailed, envVars, buildVars, container_image_uri, est,
                   s3Vars, efsVars, netVars>>

FitReturn ==
    /\ \E c \in {"fit1", "fit2"} : Wait(c)
    /\ UNCHANGED <<runs, shellFailed, envVars, buildVars, container_image_uri,
                   est, s3Vars, efsVars, netVars, jobs>>

-----------------------------------------------------------------------------
(* Shared-filesystem channels and the second job.                          *)

FileSystemInputs ==
    /\ At("FileSystemInput")
    /\ file_system_access_mode' = "ro"
    /\ train' = FileSystemInput(file_system_id, file_system_type,
                                "/LC80010022016230LGN00", "ro")
    /\ validation' = FileSystemInput(file_system_id, file_system_type,
                                     "/LC80010022016246LGN00", "ro")
    /\ Advance("FileSystemInput")
    /\ UNCHANGED <<shellFailed, envVars, buildVars, container_image_uri, est,
                   s3Vars, netVars, jobs>>

Network ==
    /\ At("network")
    /\ security_group_ids' = <<"sg-0c21b70b7f1480a4e">>
    /\ subnets' = <<"subnet-0370146357224ed30">>
    /\ Advance("network")
    /\ UNCHANGED <<shellFailed, envVars, buildVars, container_image_uri, est,
                   s3Vars, efsVars, data_channels, jobs>>

Estimator2 ==
    /\ At("Estimator2")
    /\ est' = Estimator(container_image_uri, Concat(role), train_instance_count,
                        train_instance_type, prefix, subnets, security_group_ids)
    /\ Advance("Estimator2")
    /\ UNCHANGED <<shellFailed, envVars, buildVars, container_image_uri,
                   s3Vars, efsVars, netVars, jobs>>

DataChannels ==
    /\ At("data_channels")
    /\ data_channels' = [train |-> train, validation |-> validation]
    /\ Advance("data_channels")
    /\ UNCHANGED <<shellFailed, envVars, buildVars, container_image_uri, est,
                   s3Vars, efsVars, security_group_ids, subnets, jobs>>

Fit2 ==
    /\ Fit("fit2", data_channels)
    /\ UNCHANGED <<shellFailed, envVars, buildVars, container_image_uri, est,
                   s3Vars, efsVars, netVars>>

-----------------------------------------------------------------------------
Next ==
    \/ GetExecutionRole \/ AccountId \/ RegionName \/ SagemakerSession
    \/ DefaultBucket \/ PrintEnv
    \/ ShellCell \/ CommentCell
    \/ BuildStart \/ ScriptExit \/ BuildReturn \/ ComposeImageUri
    \/ Estimator1 \/ SetHyperparameters \/ S3Input \/ Fit1
    \/ RemoteFinish \/ FitReturn
    \/ FileSystemInputs \/ Network \/ Estimator2 \/ DataChannels \/ Fit2

Spec == Init /\ [][Next]_vars

-----------------------------------------------------------------------------
(* Derived notions used by the properties.                                 *)

ResolverSites == {"get_execution_role", "account_id", "region_name",
                  "Session", "default_bucket"}

JobSet == {jobs[i] : i \in 1..Len(jobs)}

(* The fit statement that submitted the i-th job.                          *)
FitOf(i) == IF i = 1 THEN "fit1" ELSE "fit2"

(* External operations the kernel has started and that have not ended.     *)
Outstanding ==
    (IF buildStatus = "Running" THEN {"build_and_push"} ELSE {})
    \cup {FitOf(i) : i \in {k \in 1..Len(jobs) : jobs[k].status = "InProgress"}}

-----------------------------------------------------------------------------
(* C1: the image reference handed to the job submitter is the literal      *)
(* concatenation account.dkr.ecr.region.amazonaws.com/repository:latest of *)
(* exactly the three positional arguments given to the build script.       *)
C1_ImageReferenceIsConcatenation ==
    /\ buildArgs # NoArgs =>
         /\ buildArgs = <<account_id, region, ecr_repository_name>>
         /\ \E i \in 1..NumAccounts : buildArgs[1] = AccountIds[i]
         /\ buildArgs[3] = "sagemaker-training-containers/basic-training-container"
    /\ \A j \in JobSet :
         /\ j.image_uri = buildArgs[1] \o ".dkr.ecr." \o buildArgs[2]
                            \o ".amazonaws.com/" \o buildArgs[3] \o ":latest"
         /\ j.image_uri = container_image_uri
    /\ \A j \in JobSet :
         buildArgs[1] = "123456789012" /\ buildArgs[2] = "us-east-1" =>
           j.image_uri = "123456789012.dkr.ecr.us-east-1.amazonaws.com/sagemaker-training-containers/basic-training-container:latest"

C1_Witness ==
    /\ Len(jobs) = 2
    /\ buildArgs = <<"123456789012", "us-east-1", ecr_repository_name>>

C3_PushOutcomeNeverChecked ==
    [][ /\ (pc = WaitLabel("build_and_push") /\ pc' # pc)
              => pc' = "container_image_uri" /\ err' = None
        /\ buildStatus \in {"Succeeded", "Failed"} => buildStatus' = buildStatus
        /\ runs'["build_and_push"] <= 1
        /\ Len(jobs') > Len(jobs)
              => jobs'[Len(jobs')].image_uri = container_image_uri ]_vars

C3_Witness ==
    /\ buildStatus = "Failed"
    /\ \E j \in JobSet : j.image_uri \notin ecr

(* C4: the statements run in notebook order, each at most once, none       *)
(* skipped: the resolver completes before the build script is started, the *)
(* build returns before any job is submitted, and a finished run has       *)
(* executed every statement exactly once whatever the build returned.      *)
C4_LinearOrder ==
    /\ \A c \in CellSet : runs[c] <= 1
    /\ \A i, j \in 1..Len(Cells) :
         i < j /\ runs[Cells[j]] = 1 => runs[Cells[i]] = 1
    /\ pc \in CellSet =>
         \A i \in 1..Len(Cells) :
           runs[Cells[i]] = IF i < IndexOf(pc) THEN 1 ELSE 0
    /\ pc = "done" => \A c \in CellSet : runs[c] = 1
    /\ buildStatus # "NotStarted" => \A c \in ResolverSites : runs[c] = 1
    /\ jobs # <<>> => /\ buildStatus \in {"Succeeded", "Failed"}
                      /\ runs["container_image_uri"] = 1

C4_Witness ==
    /\ pc = "done"
    /\ buildStatus = "Failed"
    /\ Len(jobs) = 2

(* C7: when resolution of role, account id, region or default bucket       *)
(* fails, the build script is never started and no job is submitted; the   *)
(* later stages only ever run with every value resolved.                   *)
C7_ResolverFailureIsFatal ==
    /\ err \in ResolverSites =>
         /\ buildStatus = "NotStarted" /\ buildArgs = NoArgs
         /\ runs["container_image_uri"] = 0
         /\ jobs = <<>>
    /\ (buildStatus # "NotStarted" \/ jobs # <<>>) =>
         /\ role # NoRole /\ account_id # None /\ region # None
         /\ sagemaker_session # None /\ bucket # None

C7_Witness ==
    /\ err = "region_name"
    /\ role # NoRole
    /\ pc = "error"

C9_AtMostOneOutstanding ==
    Cardinality(Outstanding) <= 1

C9_Witness ==
    /\ Len(jobs) = 2
    /\ jobs[2].status = "InProgress"
    /\ buildStatus = "Succeeded"

(* C10: every submitted job has exactly the channels train and validation, *)
(* both of one variant, and carries subnets and security groups exactly    *)
(* when the channels are shared-filesystem channels; the two jobs agree on *)
(* image reference, role, instance count (1), instance type and base name. *)
C10_ChannelsAndNetwork ==
    /\ \A j \in JobSet :
         /\ DOMAIN j.inputs = {"train", "validation"}
         /\ j.inputs.train.variant \in {"S3", "FileSystem"}
         /\ j.inputs.train.variant = j.inputs.validation.variant
         /\ j.inputs.train.variant = "FileSystem"
              <=> (j.subnets # NoIds /\ j.security_group_ids # NoIds)
         /\ j.inputs.train.variant = "S3"
              <=> (j.subnets = NoIds /\ j.security_group_ids = NoIds)
         /\ j.train_instance_count = 1
    /\ Len(jobs) >= 1 => jobs[1].inputs.train.variant = "S3"
    /\ Len(jobs) = 2 =>
         /\ jobs[2].inputs.train.variant = "FileSystem"
         /\ jobs[1].image_uri = jobs[2].image_uri
         /\ jobs[1].role = jobs[2].role
         /\ jobs[1].train_instance_count = jobs[2].train_instance_count
         /\ jobs[1].train_instance_type = jobs[2].train_instance_type
         /\ jobs[1].base_job_name = jobs[2].base_job_name

C10_Witness ==
    /\ Len(jobs) = 2
    /\ jobs[2].subnets = <<"subnet-0370146357224ed30">>
    /\ jobs[1].subnets = NoIds

====
